---- MODULE Spec2Model ----
(***************************************************************************)
(* NeuroSync (src/revisaoresidencia.c): the button interrupt handler, the  *)
(* polling main loop with its four mode handlers, the threshold store, the *)
(* training session and the statistics.                                    *)
(*                                                                         *)
(* Units.  The float thresholds and readings are held in tenths (30.0f is  *)
(* 300, 0.5f is 5): every value the code produces from the defaults by     *)
(* steps of 5.0f and 0.5f is an exact multiple of a tenth.  Time is the    *)
(* hardware timer in whole milliseconds since boot (uptime); what the code *)
(* sees is time_us_32(), the low 32 bits of the microsecond count, which   *)
(* wraps every 2^32 us = 4294967.296 ms.  A uint32_t difference a - b of   *)
(* two timestamps is held as the plain integer a - b: a negative value     *)
(* stands for the wrapped value 2^32 + (a - b), which is larger than every *)
(* constant the code compares it with.                                     *)
(***************************************************************************)
EXTENDS Integers, Sequences, FiniteSets, TLC

----------------------------------------------------------------------------
(* Program constants *)

DEBOUNCE_DELAY_MS == 200

TempoLimite == 300

PontosPorNivel == 50

NivelMaximo == 10

NumMenus == 4

NumObjetivos == 3

UltimoParam == 3

(* First whole millisecond of uptime at which time_us_32() has wrapped:    *)
(* 2^32 us = 4294967.296 ms.                                               *)
WrapMs == 4294968

BUTTON_NEXT == "NEXT"
BUTTON_BACK == "BACK"
BUTTON_SET == "SET"
Buttons == {BUTTON_NEXT, BUTTON_BACK, BUTTON_SET}

----------------------------------------------------------------------------
(* Bounds of the model *)

(* Samples the statistics may accumulate before Monitoring ticks stop.     *)
MaxAmostras == 2

----------------------------------------------------------------------------
VARIABLES
    uptime,            \* hardware timer, whole ms since boot (environment)
    pressed,           \* pressed[b]: the pin of button b reads 0 (held down)
    menu_index,        \* 0=Monitoring 1=ConfigView 2=Training 3=History
    in_set_mode,       \* the edit overlay is present
    current_param,     \* parameter edited under the overlay
    last_button_time,  \* shared debounce timestamp (ms)
    limiar,            \* the four thresholds, in tenths
    estado_atual,      \* last reading, in tenths
    stats,             \* Estatisticas
    treinamento,       \* DadosTreinamento
    pc,                \* position of the main loop (stepwise model)
    loc,               \* values the main loop has read in this iteration
    last_accept,       \* history: uptime of the last accepted button event
    ev                 \* history: what the last step did

vars == <<uptime, pressed, menu_index, in_set_mode, current_param,
          last_button_time, limiar, estado_atual, stats, treinamento,
          pc, loc, last_accept, ev>>

menuVars == <<menu_index, in_set_mode, current_param>>

----------------------------------------------------------------------------
(* The clock *)

(* time_us_32() / 1000 *)
TimeMs(up) == up % WrapMs

(* time_us_32() / 1000000 *)
TimeS(up) == TimeMs(up) \div 1000

(* uint32_t comparisons of a difference d = a - b (see Units) *)
UGt(d, k) == d < 0 \/ d > k
UGe(d, k) == d < 0 \/ d >= k
ULt(d, k) == ~UGe(d, k)

----------------------------------------------------------------------------
(* History records *)

(* loc: what the iteration under way has read, -1 or "-" for not yet: the  *)
(* overlay flag (set), menu_index (menu), current_param for the display    *)
(* (param) and for the switch (adj), the button being polled (btn), the    *)
(* clock (time); seen: every MenuState that existed since it began.        *)
NoLoc == [set |-> FALSE, menu |-> -1, param |-> -1, adj |-> -1, btn |-> "-",
          time |-> -1, seen |-> {}]

Gap == IF last_accept < 0 THEN -1 ELSE uptime - last_accept

(* src: "irq" or the handler the loop ran; gpio, accepted: the button event *)
(* the step accepted; gap: ms since the event accepted before it; durw:    *)
(* assignments to treinamento.duracao made by the step; estado: the value  *)
(* of determinar_estado_cognitivo the step displayed, -1 if none.          *)
Ev(src, gpio, accepted, durw) ==
    [src |-> src, gpio |-> gpio, accepted |-> accepted, gap |-> Gap,
     durw |-> durw, estado |-> -1]

NoEv == [src |-> "none", gpio |-> "-", accepted |-> FALSE, gap |-> -1,
         durw |-> 0, estado |-> -1]

MenuState == [menu |-> menu_index, set |-> in_set_mode, param |-> current_param]

----------------------------------------------------------------------------
(* Input Event Debouncer: the two forms of the check *)

(* button_callback: "if (current_time - last_button_time < DELAY) return"  *)
DebounceIrq(now, last) == ~ULt(now - last, DEBOUNCE_DELAY_MS)

(* polled checks: "if (current_time - last_button_time > DELAY)"           *)
DebouncePoll(now, last) == UGt(now - last, DEBOUNCE_DELAY_MS)

----------------------------------------------------------------------------
(* Mode Navigator: button_callback *)

MenuNext(m) == (m + 1) % NumMenus

(* Variant: "menu_index - 1" with C's truncating remainder.                 *)
MenuBack_Minus1(m) == IF m = 0 THEN -1 ELSE m - 1

MenuBack(m) == (m + 3) % NumMenus

(* Variant: the overlay is left one parameter early (">=" for ">").        *)
MenuSet_PopEarly(ms) ==
    IF ms.menu # 2
    THEN IF ~ms.set
         THEN [ms EXCEPT !.set = TRUE, !.param = 0]
         ELSE IF ms.param + 1 >= UltimoParam
              THEN [ms EXCEPT !.set = FALSE, !.param = 0]
              ELSE [ms EXCEPT !.param = ms.param + 1]
    ELSE ms

(* Variant: no exception for the Training view.                            *)
MenuSet_NoTreino(ms) ==
    IF ~ms.set
    THEN [ms EXCEPT !.set = TRUE, !.param = 0]
    ELSE IF ms.param + 1 > UltimoParam
         THEN [ms EXCEPT !.set = FALSE, !.param = 0]
         ELSE [ms EXCEPT !.param = ms.param + 1]

(* Variant: leaving the overlay does not put current_param back to 0.      *)
MenuSet_SemZerar(ms) ==
    IF ms.menu # 2
    THEN IF ~ms.set
         THEN [ms EXCEPT !.set = TRUE, !.param = 0]
         ELSE IF ms.param + 1 > UltimoParam
              THEN [ms EXCEPT !.set = FALSE, !.param = ms.param + 1]
              ELSE [ms EXCEPT !.param = ms.param + 1]
    ELSE ms

(* The SET branch: the new [menu, set, param] from the old one.            *)
MenuSet(ms) ==
    IF ms.menu # 2
    THEN IF ~ms.set
         THEN [ms EXCEPT !.set = TRUE, !.param = 0]
         ELSE IF ms.param + 1 > UltimoParam
              THEN [ms EXCEPT !.set = FALSE, !.param = 0]
              ELSE [ms EXCEPT !.param = ms.param + 1]
    ELSE ms

(* Variant: NEXT and BACK move the menu whether the overlay is open or not. *)
MenuEvent_SemOverlay(gpio, ms) ==
    IF gpio = BUTTON_SET THEN MenuSet(ms)
    ELSE IF gpio = BUTTON_NEXT
         THEN [ms EXCEPT !.menu = MenuNext(ms.menu)]
         ELSE [ms EXCEPT !.menu = MenuBack(ms.menu)]

(* The branch taken for an accepted edge on gpio.                          *)
MenuEvent(gpio, ms) ==
    IF gpio = BUTTON_SET THEN MenuSet(ms)
    ELSE IF gpio = BUTTON_NEXT
         THEN IF ~ms.set THEN [ms EXCEPT !.menu = MenuNext(ms.menu)] ELSE ms
         ELSE IF ~ms.set THEN [ms EXCEPT !.menu = MenuBack(ms.menu)] ELSE ms

(* Variant: the handler does not return on a rejected edge; only the       *)
(* store to last_button_time is skipped.                                   *)
ButtonCallback_SemRetorno(gpio) ==
    LET now == TimeMs(uptime)
        ok  == DebounceIrq(now, last_button_time)
        ms  == MenuEvent(gpio, MenuState)
    IN  /\ pressed' = [pressed EXCEPT ![gpio] = TRUE]
        /\ last_button_time' = IF ok THEN now ELSE last_button_time
        /\ menu_index' = ms.menu
        /\ in_set_mode' = ms.set
        /\ current_param' = ms.param
        /\ last_accept' = IF ok THEN uptime ELSE last_accept
        /\ ev' = Ev("irq", gpio, ok, 0)
        /\ loc' = IF pc = "sleep" THEN loc
                  ELSE [loc EXCEPT !.seen = @ \cup {ms}]
        /\ UNCHANGED <<uptime, limiar, estado_atual, stats, treinamento, pc>>

(* A falling edge on gpio and the run of the interrupt handler it causes.  *)
(* The handler runs to completion wherever the main loop is.               *)
ButtonCallback(gpio) ==
    LET now == TimeMs(uptime)
        ok  == DebounceIrq(now, last_button_time)
        ms  == IF ok THEN MenuEvent(gpio, MenuState) ELSE MenuState
    IN  /\ pressed' = [pressed EXCEPT ![gpio] = TRUE]
        /\ last_button_time' = IF ok THEN now ELSE last_button_time
        /\ menu_index' = ms.menu
        /\ in_set_mode' = ms.set
        /\ current_param' = ms.param
        /\ last_accept' = IF ok THEN uptime ELSE last_accept
        /\ ev' = Ev("irq", gpio, ok, 0)
        /\ loc' = IF pc = "sleep" THEN loc
                  ELSE [loc EXCEPT !.seen = @ \cup {ms}]
        /\ UNCHANGED <<uptime, limiar, estado_atual, stats, treinamento, pc>>

(* The button is let go: the pin reads 1 again (no rising-edge interrupt). *)
Release(gpio) ==
    /\ pressed[gpio]
    /\ pressed' = [pressed EXCEPT ![gpio] = FALSE]
    /\ ev' = NoEv
    /\ UNCHANGED <<uptime, menuVars, last_button_time, limiar, estado_atual,
                   stats, treinamento, pc, loc, last_accept>>

(* The timer advances by d ms, within the window lo..hi of the model.      *)
AdvanceTime(d, lo, hi) ==
    /\ lo <= uptime /\ uptime + d <= hi
    /\ uptime' = uptime + d
    /\ ev' = NoEv
    /\ UNCHANGED <<pressed, menuVars, last_button_time, limiar, estado_atual,
                   stats, treinamento, pc, loc, last_accept>>

----------------------------------------------------------------------------
(* Parameter Store: the two switch statements of executar_modo_configuracao *)

Min(a, b) == IF a < b THEN a ELSE b
Max(a, b) == IF a > b THEN a ELSE b

(* Variant: the increase of the low thresholds is clamped at the range's   *)
(* ceiling only, not at the high threshold minus the gap.                  *)
AumentarParam_SemFolga(p, L) ==
    CASE p = 0 -> [L EXCEPT !.atencao_baixo = Min(L.atencao_baixo + 50, 950)]
      [] p = 1 -> [L EXCEPT !.atencao_alto = Min(L.atencao_alto + 50, 1000)]
      [] p = 2 -> [L EXCEPT !.relaxamento_baixo = Min(L.relaxamento_baixo + 5, 95)]
      [] p = 3 -> [L EXCEPT !.relaxamento_alto = Min(L.relaxamento_alto + 5, 100)]
      [] OTHER -> L

AumentarParam(p, L) ==
    CASE p = 0 -> [L EXCEPT !.atencao_baixo =
                       Min(Min(L.atencao_baixo + 50, L.atencao_alto - 50), 950)]
      [] p = 1 -> [L EXCEPT !.atencao_alto = Min(L.atencao_alto + 50, 1000)]
      [] p = 2 -> [L EXCEPT !.relaxamento_baixo =
                       Min(Min(L.relaxamento_baixo + 5, L.relaxamento_alto - 5), 95)]
      [] p = 3 -> [L EXCEPT !.relaxamento_alto = Min(L.relaxamento_alto + 5, 100)]
      [] OTHER -> L

(* Variant: the decrease of the high thresholds is clamped at the range's   *)
(* floor instead of at the low threshold plus the gap.                     *)
DiminuirParam_SemFolga(p, L) ==
    CASE p = 0 -> [L EXCEPT !.atencao_baixo = Max(L.atencao_baixo - 50, 50)]
      [] p = 1 -> [L EXCEPT !.atencao_alto = Max(L.atencao_alto - 50, 100)]
      [] p = 2 -> [L EXCEPT !.relaxamento_baixo = Max(L.relaxamento_baixo - 5, 5)]
      [] p = 3 -> [L EXCEPT !.relaxamento_alto = Max(L.relaxamento_alto - 5, 10)]
      [] OTHER -> L

DiminuirParam(p, L) ==
    CASE p = 0 -> [L EXCEPT !.atencao_baixo = Max(L.atencao_baixo - 50, 50)]
      [] p = 1 -> [L EXCEPT !.atencao_alto =
                       Max(L.atencao_alto - 50, L.atencao_baixo + 50)]
      [] p = 2 -> [L EXCEPT !.relaxamento_baixo = Max(L.relaxamento_baixo - 5, 5)]
      [] p = 3 -> [L EXCEPT !.relaxamento_alto =
                       Max(L.relaxamento_alto - 5, L.relaxamento_baixo + 5)]
      [] OTHER -> L

----------------------------------------------------------------------------
(* The mode handlers, each as the whole function run on one iteration of   *)
(* the main loop.  A handler is given the pin levels pr and the timestamps *)
(* nowms = time_us_32()/1000 and nows = time_us_32()/1000000 of the        *)
(* iteration and yields the new values and the polled button it accepted   *)
(* ("-" if none).                                                          *)

(* executar_modo_configuracao: the NEXT check, then the BACK check.        *)
ExecutarModoConfiguracao(L, lbt, p, pr, nowms) ==
    LET okN  == pr[BUTTON_NEXT] /\ DebouncePoll(nowms, lbt)
        lbt1 == IF okN THEN nowms ELSE lbt
        L1   == IF okN THEN AumentarParam(p, L) ELSE L
        okB  == pr[BUTTON_BACK] /\ DebouncePoll(nowms, lbt1)
        lbt2 == IF okB THEN nowms ELSE lbt1
        L2   == IF okB THEN DiminuirParam(p, L1) ELSE L1
    IN  [limiar |-> L2, lbt |-> lbt2,
         acc |-> IF okN THEN BUTTON_NEXT ELSE IF okB THEN BUTTON_BACK ELSE "-"]

(* Variant: the test for 2 (high concentration) comes before the test for  *)
(* 5 (anxiety).                                                            *)
DeterminarEstadoCognitivo_SemAnsiedade(r, L) ==
    IF r.atencao >= L.atencao_alto /\ r.relaxamento >= L.relaxamento_alto THEN 4
    ELSE IF r.atencao >= L.atencao_alto THEN 2
    ELSE IF r.atencao >= L.atencao_alto /\ r.relaxamento < L.relaxamento_baixo THEN 5
    ELSE IF r.atencao < L.atencao_baixo THEN 0
    ELSE IF r.relaxamento >= L.relaxamento_alto THEN 3
    ELSE 1

(* determinar_estado_cognitivo: 0 distracted, 1 normal, 2 high             *)
(* concentration, 3 deep relaxation, 4 flow, 5 anxiety.                    *)
DeterminarEstadoCognitivo(r, L) ==
    IF r.atencao >= L.atencao_alto /\ r.relaxamento >= L.relaxamento_alto THEN 4
    ELSE IF r.atencao >= L.atencao_alto /\ r.relaxamento < L.relaxamento_baixo THEN 5
    ELSE IF r.atencao >= L.atencao_alto THEN 2
    ELSE IF r.atencao < L.atencao_baixo THEN 0
    ELSE IF r.relaxamento >= L.relaxamento_alto THEN 3
    ELSE 1

(* executar_modo_monitoramento: the statistics update at its end.          *)
AtualizarEstatisticas(st, r) ==
    [st EXCEPT !.soma_atencao = @ + r.atencao,
               !.soma_relaxamento = @ + r.relaxamento,
               !.amostras = @ + 1,
               !.max_atencao = IF r.atencao > @ THEN r.atencao ELSE @,
               !.max_relaxamento = IF r.relaxamento > @ THEN r.relaxamento ELSE @]

(* The objective test of a session in progress.                            *)
ObjetivoAtingido(obj, r, L) ==
    CASE obj = 0 -> r.atencao >= L.atencao_alto
      [] obj = 1 -> r.relaxamento >= L.relaxamento_alto
      [] obj = 2 -> r.atencao >= L.atencao_alto /\ r.relaxamento >= L.relaxamento_alto
      [] OTHER -> FALSE

(* The end of a session: "stats.sessoes_concluidas++" on a uint8_t and     *)
(* "stats.tempo_ultimo_treino = treinamento.duracao".                      *)
RegistrarSessao(st, dur) ==
    [st EXCEPT !.sessoes_concluidas = (@ + 1) % 256, !.tempo_ultimo_treino = dur]

(* status == 0: the NEXT check (objective), then the SET check (start).    *)
TreinoNaoIniciado(t, lbt, pr, nowms, nows) ==
    LET okN  == pr[BUTTON_NEXT] /\ DebouncePoll(nowms, lbt)
        lbt1 == IF okN THEN nowms ELSE lbt
        t1   == IF okN THEN [t EXCEPT !.objetivo = (@ + 1) % NumObjetivos] ELSE t
        okS  == pr[BUTTON_SET] /\ DebouncePoll(nowms, lbt1)
        t2   == IF okS
                THEN [t1 EXCEPT !.status = 1, !.inicio = nows, !.nivel_atual = 1,
                                !.nivel_maximo = NivelMaximo, !.pontuacao = 0]
                ELSE t1
    IN  [t |-> t2, lbt |-> IF okS THEN nowms ELSE lbt1,
         acc |-> IF okS THEN BUTTON_SET ELSE IF okN THEN BUTTON_NEXT ELSE "-"]

(* Variant of TreinoPontuar: the multiple of PontosPorNivel is tested on   *)
(* the score before the increment.                                         *)
TreinoPontuar_NivelCedo(t, st, r, L, nows) ==
    LET met  == ObjetivoAtingido(t.objetivo, r, L)
        t1   == IF met THEN [t EXCEPT !.pontuacao = @ + 1] ELSE t
        up   == met /\ t.pontuacao % PontosPorNivel = 0
                    /\ t1.nivel_atual < t1.nivel_maximo
        t2   == IF up THEN [t1 EXCEPT !.nivel_atual = @ + 1] ELSE t1
        done == up /\ t2.nivel_atual = t2.nivel_maximo
        t3   == IF done THEN [t2 EXCEPT !.status = 2, !.duracao = nows - t2.inicio]
                ELSE t2
    IN  [t |-> t3, st |-> IF done THEN RegistrarSessao(st, t3.duracao) ELSE st,
         durw |-> IF done THEN 1 ELSE 0]

(* Variant of TreinoPontuar: the completion leaves duracao alone.          *)
TreinoPontuar_SemDuracao(t, st, r, L, nows) ==
    LET met  == ObjetivoAtingido(t.objetivo, r, L)
        t1   == IF met THEN [t EXCEPT !.pontuacao = @ + 1] ELSE t
        up   == met /\ t1.pontuacao % PontosPorNivel = 0
                    /\ t1.nivel_atual < t1.nivel_maximo
        t2   == IF up THEN [t1 EXCEPT !.nivel_atual = @ + 1] ELSE t1
        done == up /\ t2.nivel_atual = t2.nivel_maximo
        t3   == IF done THEN [t2 EXCEPT !.status = 2] ELSE t2
    IN  [t |-> t3, st |-> IF done THEN RegistrarSessao(st, t3.duracao) ELSE st,
         durw |-> 0]

(* status == 1, first part: the score, the level-up and the completion at  *)
(* the last level.                                                         *)
(* Variant: reaching nivel_maximo does not end the session.                *)
TreinoPontuar_SemConclusao(t, st, r, L, nows) ==
    LET met  == ObjetivoAtingido(t.objetivo, r, L)
        t1   == IF met THEN [t EXCEPT !.pontuacao = @ + 1] ELSE t
        up   == met /\ t1.pontuacao % PontosPorNivel = 0
                    /\ t1.nivel_atual < t1.nivel_maximo
        t2   == IF up THEN [t1 EXCEPT !.nivel_atual = @ + 1] ELSE t1
    IN  [t |-> t2, st |-> st, durw |-> 0]

TreinoPontuar(t, st, r, L, nows) ==
    LET met  == ObjetivoAtingido(t.objetivo, r, L)
        t1   == IF met THEN [t EXCEPT !.pontuacao = @ + 1] ELSE t
        up   == met /\ t1.pontuacao % PontosPorNivel = 0
                    /\ t1.nivel_atual < t1.nivel_maximo
        t2   == IF up THEN [t1 EXCEPT !.nivel_atual = @ + 1] ELSE t1
        done == up /\ t2.nivel_atual = t2.nivel_maximo
        t3   == IF done THEN [t2 EXCEPT !.status = 2, !.duracao = nows - t2.inicio]
                ELSE t2
    IN  [t |-> t3, st |-> IF done THEN RegistrarSessao(st, t3.duracao) ELSE st,
         durw |-> IF done THEN 1 ELSE 0]

(* Variant of TreinoTempoLimite: the limit is tested with ">".             *)
TreinoTempoLimite_Estrito(t, st, nows) ==
    LET tempo_decorrido == nows - t.inicio
    IN  IF UGt(tempo_decorrido, TempoLimite)
        THEN LET t1 == [t EXCEPT !.status = IF t.nivel_atual < t.nivel_maximo
                                            THEN 3 ELSE 2,
                                 !.duracao = tempo_decorrido]
             IN  [t |-> t1, st |-> RegistrarSessao(st, t1.duracao), durw |-> 1]
        ELSE [t |-> t, st |-> st, durw |-> 0]

(* Variant: the limit is tested with "==".                                 *)
TreinoTempoLimite_Igual(t, st, nows) ==
    LET tempo_decorrido == nows - t.inicio
    IN  IF tempo_decorrido = TempoLimite
        THEN LET t1 == [t EXCEPT !.status = IF t.nivel_atual < t.nivel_maximo
                                            THEN 3 ELSE 2,
                                 !.duracao = tempo_decorrido]
             IN  [t |-> t1, st |-> RegistrarSessao(st, t1.duracao), durw |-> 1]
        ELSE [t |-> t, st |-> st, durw |-> 0]

(* status == 1, second part: the time limit, tested whatever the first     *)
(* part did.                                                               *)
TreinoTempoLimite(t, st, nows) ==
    LET tempo_decorrido == nows - t.inicio
    IN  IF UGe(tempo_decorrido, TempoLimite)
        THEN LET t1 == [t EXCEPT !.status = IF t.nivel_atual < t.nivel_maximo
                                            THEN 3 ELSE 2,
                                 !.duracao = tempo_decorrido]
             IN  [t |-> t1, st |-> RegistrarSessao(st, t1.duracao), durw |-> 1]
        ELSE [t |-> t, st |-> st, durw |-> 0]

(* The SET check that ends the status == 1 branch and is the whole of the  *)
(* status == 2 || status == 3 branch.                                      *)
TreinoSetReinicia(t, lbt, pr, nowms) ==
    LET okS == pr[BUTTON_SET] /\ DebouncePoll(nowms, lbt)
    IN  [t |-> IF okS THEN [t EXCEPT !.status = 0] ELSE t,
         lbt |-> IF okS THEN nowms ELSE lbt,
         acc |-> IF okS THEN BUTTON_SET ELSE "-"]

(* Variant of ExecutarModoTreinamento: the time limit is also tested in    *)
(* the status == 2 || status == 3 branch.                                  *)
ExecutarModoTreinamento_LimiteSempre(t, st, lbt, r, L, pr, nowms, nows) ==
    IF t.status = 0
    THEN LET a == TreinoNaoIniciado(t, lbt, pr, nowms, nows)
         IN  [t |-> a.t, st |-> st, lbt |-> a.lbt, acc |-> a.acc, durw |-> 0]
    ELSE IF t.status = 1
    THEN LET a == TreinoPontuar(t, st, r, L, nows)
             b == TreinoTempoLimite(a.t, a.st, nows)
             c == TreinoSetReinicia(b.t, lbt, pr, nowms)
         IN  [t |-> c.t, st |-> b.st, lbt |-> c.lbt, acc |-> c.acc,
              durw |-> a.durw + b.durw]
    ELSE LET b == TreinoTempoLimite(t, st, nows)
             c == TreinoSetReinicia(b.t, lbt, pr, nowms)
         IN  [t |-> c.t, st |-> b.st, lbt |-> c.lbt, acc |-> c.acc,
              durw |-> b.durw]

(* executar_modo_treinamento: the branch is chosen by the status at entry. *)
ExecutarModoTreinamento(t, st, lbt, r, L, pr, nowms, nows) ==
    IF t.status = 0
    THEN LET a == TreinoNaoIniciado(t, lbt, pr, nowms, nows)
         IN  [t |-> a.t, st |-> st, lbt |-> a.lbt, acc |-> a.acc, durw |-> 0]
    ELSE IF t.status = 1
    THEN LET a == TreinoPontuar(t, st, r, L, nows)
             b == TreinoTempoLimite(a.t, a.st, nows)
             c == TreinoSetReinicia(b.t, lbt, pr, nowms)
         IN  [t |-> c.t, st |-> b.st, lbt |-> c.lbt, acc |-> c.acc,
              durw |-> a.durw + b.durw]
    ELSE IF t.status = 2 \/ t.status = 3
    THEN LET c == TreinoSetReinicia(t, lbt, pr, nowms)
         IN  [t |-> c.t, st |-> st, lbt |-> c.lbt, acc |-> c.acc, durw |-> 0]
    ELSE [t |-> t, st |-> st, lbt |-> lbt, acc |-> "-", durw |-> 0]

(* executar_modo_historico: the fields the reset assigns.                  *)
(* Variant: max_atencao is assigned the old sum instead of 0.               *)
LimparEstatisticas_MaxDaSoma(st, nows) ==
    [st EXCEPT !.soma_atencao = 0, !.soma_relaxamento = 0,
               !.max_atencao = st.soma_atencao,
               !.max_relaxamento = 0, !.amostras = 0, !.tempo_inicio = nows,
               !.sessoes_concluidas = 0]

LimparEstatisticas(st, nows) ==
    [st EXCEPT !.soma_atencao = 0, !.soma_relaxamento = 0, !.max_atencao = 0,
               !.max_relaxamento = 0, !.amostras = 0, !.tempo_inicio = nows,
               !.sessoes_concluidas = 0]

ExecutarModoHistorico(st, lbt, pr, nowms, nows) ==
    LET okS == pr[BUTTON_SET] /\ DebouncePoll(nowms, lbt)
    IN  [st |-> IF okS /\ pr[BUTTON_NEXT] THEN LimparEstatisticas(st, nows) ELSE st,
         lbt |-> IF okS THEN nowms ELSE lbt,
         acc |-> IF okS THEN BUTTON_SET ELSE "-"]

----------------------------------------------------------------------------
(* The main loop, one whole iteration per step: main's dispatch on         *)
(* in_set_mode and menu_index, then the handler.  R is the set of readings *)
(* the sensors may give.                                                   *)

Modo == IF in_set_mode THEN "cfg"
        ELSE CASE menu_index = 0 -> "mon"
               [] menu_index = 1 -> "cfg"
               [] menu_index = 2 -> "trn"
               [] menu_index = 3 -> "hist"
               [] OTHER -> "none"

Accepted(acc, durw) ==
    /\ last_accept' = IF acc # "-" THEN uptime ELSE last_accept
    /\ ev' = Ev(Modo, acc, acc # "-", durw)

LoopMonitoramento(R) ==
    /\ pc = "sleep" /\ Modo = "mon"
    /\ stats.amostras < MaxAmostras
    /\ \E r \in R :
          /\ estado_atual' = r
          /\ stats' = AtualizarEstatisticas(stats, r)
          /\ ev' = [Ev("mon", "-", FALSE, 0) EXCEPT
                       !.estado = DeterminarEstadoCognitivo(r, limiar)]
    /\ last_accept' = last_accept
    /\ UNCHANGED <<uptime, pressed, menuVars, last_button_time, limiar,
                   treinamento, pc, loc>>

LoopConfiguracao ==
    /\ pc = "sleep" /\ Modo = "cfg"
    /\ LET a == ExecutarModoConfiguracao(limiar, last_button_time, current_param,
                                         pressed, TimeMs(uptime))
       IN  /\ limiar' = a.limiar
           /\ last_button_time' = a.lbt
           /\ Accepted(a.acc, 0)
    /\ UNCHANGED <<uptime, pressed, menuVars, estado_atual, stats, treinamento,
                   pc, loc>>

LoopTreinamento(R) ==
    /\ pc = "sleep" /\ Modo = "trn"
    /\ \E r \in R :
          LET a == ExecutarModoTreinamento(treinamento, stats, last_button_time,
                                           r, limiar, pressed, TimeMs(uptime),
                                           TimeS(uptime))
          IN  /\ estado_atual' = r
              /\ treinamento' = a.t
              /\ stats' = a.st
              /\ last_button_time' = a.lbt
              /\ Accepted(a.acc, a.durw)
    /\ UNCHANGED <<uptime, pressed, menuVars, limiar, pc, loc>>

(* Variant: the History iteration adds a point to a running session.       *)
LoopHistorico_Pontua ==
    /\ pc = "sleep" /\ Modo = "hist"
    /\ LET a == ExecutarModoHistorico(stats, last_button_time, pressed,
                                      TimeMs(uptime), TimeS(uptime))
       IN  /\ stats' = a.st
           /\ last_button_time' = a.lbt
           /\ Accepted(a.acc, 0)
    /\ treinamento' = IF treinamento.status = 1
                      THEN [treinamento EXCEPT !.pontuacao = @ + 1]
                      ELSE treinamento
    /\ UNCHANGED <<uptime, pressed, menuVars, limiar, estado_atual, pc, loc>>

LoopHistorico ==
    /\ pc = "sleep" /\ Modo = "hist"
    /\ LET a == ExecutarModoHistorico(stats, last_button_time, pressed,
                                      TimeMs(uptime), TimeS(uptime))
       IN  /\ stats' = a.st
           /\ last_button_time' = a.lbt
           /\ Accepted(a.acc, 0)
    /\ UNCHANGED <<uptime, pressed, menuVars, limiar, estado_atual, treinamento,
                   pc, loc>>

----------------------------------------------------------------------------
(* The state when main enters its loop: the initialisers of the globals.   *)

LimiarInicial == [atencao_baixo |-> 300, atencao_alto |-> 700,
                  relaxamento_baixo |-> 30, relaxamento_alto |-> 70]

StatsInicial == [soma_atencao |-> 0, soma_relaxamento |-> 0, max_atencao |-> 0,
                 max_relaxamento |-> 0, amostras |-> 0, tempo_inicio |-> 0,
                 tempo_ultimo_treino |-> 0, sessoes_concluidas |-> 0]

TreinamentoInicial == [nivel_atual |-> 0, nivel_maximo |-> 0, duracao |-> 0,
                       objetivo |-> 0, status |-> 0, inicio |-> 0, pontuacao |-> 0]

Init ==
    /\ uptime = 0
    /\ pressed = [b \in Buttons |-> FALSE]
    /\ menu_index = 0
    /\ in_set_mode = FALSE
    /\ current_param = 0
    /\ last_button_time = 0
    /\ limiar = LimiarInicial
    /\ estado_atual = [atencao |-> 0, relaxamento |-> 0]
    /\ stats = StatsInicial
    /\ treinamento = TreinamentoInicial
    /\ pc = "sleep"
    /\ loc = NoLoc
    /\ last_accept = -1
    /\ ev = NoEv

----------------------------------------------------------------------------
(* Spec: the whole program, every handler one step, over a short horizon.  *)

(* A reading that meets no objective under the default thresholds.         *)
LeituraBaixa == [atencao |-> 500, relaxamento |-> 50]

PassoMs == 200

MaxUptime == 1000

(* A long idle period: no button is held and the loop's iterations change  *)
(* nothing (no Monitoring samples, no session in progress), until the      *)
(* timer is 168 ms short of wrapping; then steps of MeioPassoMs across the *)
(* wrap.                                                                   *)
SaltoOcioso == 4294800

MeioPassoMs == 100

PassosAposSalto == 3

Ocioso(ate) ==
    /\ uptime < ate
    /\ \A b \in Buttons : ~pressed[b]
    /\ Modo # "mon" /\ treinamento.status # 1
    /\ uptime' = ate
    /\ ev' = NoEv
    /\ UNCHANGED <<pressed, menuVars, last_button_time, limiar, estado_atual,
                   stats, treinamento, pc, loc, last_accept>>

Next ==
    \/ \E b \in Buttons : ButtonCallback(b)
    \/ \E b \in Buttons : Release(b)
    \/ AdvanceTime(PassoMs, 0, MaxUptime)
    \/ uptime <= MaxUptime /\ Ocioso(SaltoOcioso)
    \/ AdvanceTime(MeioPassoMs, SaltoOcioso,
                   SaltoOcioso + PassosAposSalto * MeioPassoMs)
    \/ LoopMonitoramento({LeituraBaixa})
    \/ LoopConfiguracao
    \/ LoopTreinamento({LeituraBaixa})
    \/ LoopHistorico

Spec == Init /\ [][Next]_vars

----------------------------------------------------------------------------
(* Claims checked under Spec *)

(* C6: a falling edge handled by the interrupt handler less than 200 ms    *)
(* after the last accepted event (of any button, accepted by the handler   *)
(* or by a polled check) produces no logical event.                        *)
C6_EdgeWithin200Suppressed ==
    (ev.src = "irq" /\ ev.gap >= 0 /\ ev.gap < DEBOUNCE_DELAY_MS) => ~ev.accepted

IrqAccepted(gpio) == ev'.src = "irq" /\ ev'.accepted /\ ev'.gpio = gpio

PlainViews == {[menu |-> m, set |-> FALSE, param |-> 0] : m \in {0, 1, 3}}

----------------------------------------------------------------------------
(* SpecParams: the user edits the thresholds, one button at a time.  SET   *)
(* opens the overlay and walks through the parameters; NEXT and BACK are   *)
(* pressed only under the overlay, so the mode stays Monitoring.           *)

PassoParamsMs == 250

MaxUptimeParams == 3000

NenhumPressionado == \A b \in Buttons : ~pressed[b]

NextParams ==
    \/ NenhumPressionado /\ ButtonCallback(BUTTON_SET)
    \/ \E b \in {BUTTON_NEXT, BUTTON_BACK} :
          NenhumPressionado /\ in_set_mode /\ ButtonCallback(b)
    \/ \E b \in Buttons : Release(b)
    \/ AdvanceTime(PassoParamsMs, 0, MaxUptimeParams)
    \/ LoopMonitoramento({LeituraBaixa})
    \/ LoopConfiguracao

SpecParams == Init /\ [][NextParams]_vars

(* C1: after any sequence of increase/decrease operations from the         *)
(* defaults, attention_high - attention_low >= 5.0 and relaxation_high -   *)
(* relaxation_low >= 0.5, attention_low is in [5,95], attention_high in    *)
(* [10,100], relaxation_low in [0.5,9.5] and relaxation_high in [1.0,10.0].*)
C1_ThresholdInvariant ==
    /\ limiar.atencao_alto - limiar.atencao_baixo >= 50
    /\ limiar.relaxamento_alto - limiar.relaxamento_baixo >= 5
    /\ limiar.atencao_baixo >= 50 /\ limiar.atencao_baixo <= 950
    /\ limiar.atencao_alto >= 100 /\ limiar.atencao_alto <= 1000
    /\ limiar.relaxamento_baixo >= 5 /\ limiar.relaxamento_baixo <= 95
    /\ limiar.relaxamento_alto >= 10 /\ limiar.relaxamento_alto <= 100

(* A decrease of relaxation_high has just been clamped at the minimum gap. *)
C1_Witness ==
    /\ ev.src = "cfg" /\ ev.accepted /\ ev.gpio = BUTTON_BACK
    /\ current_param = 3
    /\ limiar.relaxamento_alto = limiar.relaxamento_baixo + 5

----------------------------------------------------------------------------
(* SpecTrain: training sessions.  The user has brought the menu to         *)
(* Training (two accepted NEXT, the last event accepted at TreinoT0) and   *)
(* chosen an objective; from there only SET is used.  The timer advances   *)
(* by PassoTreinoMs in two windows, to let SET pass the debounce, one at   *)
(* the start and one around the time limit; between them it jumps by       *)
(* SaltoTreinoMs while no button is held, which stands for a stretch of    *)
(* iterations whose readings miss the objective.  An iteration takes no    *)
(* model time: any number of them may run between two steps of the timer.  *)

TreinoT0 == 1200

PassoTreinoMs == 250

JanelaTreinoMs == 520

SaltoTreinoMs == 299500

JanelaLimiteMs == 780

(* Readings on and next to the default high thresholds 70.0 and 7.0.       *)
LeiturasTreino == {[atencao |-> 700, relaxamento |-> 50],
                   [atencao |-> 699, relaxamento |-> 70],
                   [atencao |-> 700, relaxamento |-> 70]}

(* The Training view with no session started: a state Spec reaches at      *)
(* TreinoT0 for each of the three objectives.                              *)
InitTreino ==
    /\ uptime = TreinoT0
    /\ pressed = [b \in Buttons |-> FALSE]
    /\ menu_index = 2
    /\ in_set_mode = FALSE
    /\ current_param = 0
    /\ last_button_time = TimeMs(TreinoT0)
    /\ limiar = LimiarInicial
    /\ estado_atual = LeituraBaixa
    /\ stats = StatsInicial
    /\ \E o \in 0..(NumObjetivos - 1) :
          treinamento = [TreinamentoInicial EXCEPT !.objetivo = o]
    /\ pc = "sleep"
    /\ loc = NoLoc
    /\ last_accept = TreinoT0
    /\ ev = NoEv

NextTreino ==
    \/ ButtonCallback(BUTTON_SET)
    \/ Release(BUTTON_SET)
    \/ AdvanceTime(PassoTreinoMs, TreinoT0, TreinoT0 + JanelaTreinoMs)
    \/ NenhumPressionado
          /\ AdvanceTime(SaltoTreinoMs, TreinoT0,
                         TreinoT0 + JanelaTreinoMs + SaltoTreinoMs)
    \/ AdvanceTime(PassoTreinoMs, TreinoT0 + SaltoTreinoMs,
                   TreinoT0 + SaltoTreinoMs + JanelaLimiteMs)
    \/ LoopTreinamento(LeiturasTreino)

SpecTrain == InitTreino /\ [][NextTreino]_vars

(* A step of the Training handler, and the seconds its clock reads.        *)
TickTreino == ev'.src = "trn"

TempoDecorrido == TimeS(uptime) - treinamento.inicio

(* C2, as stated: a Training iteration that finds the session InProgress   *)
(* with 300 s or more elapsed ends with status Failed if the level is      *)
(* below level_max and Completed if it equals level_max, and with duration *)
(* and last_session_duration set to the elapsed seconds.                   *)
C2_TimeoutAsStated ==
    [][(TickTreino /\ treinamento.status = 1 /\ UGe(TempoDecorrido, TempoLimite))
        => /\ treinamento'.duracao = TempoDecorrido
           /\ stats'.tempo_ultimo_treino = TempoDecorrido
           /\ treinamento'.status =
                 IF treinamento'.nivel_atual < treinamento'.nivel_maximo
                 THEN 3 ELSE 2]_vars

(* C2, amended: the same, except that when the SET check that closes the   *)
(* iteration accepts SET the iteration ends with status NotStarted; the    *)
(* two durations are set all the same.                                     *)
C2_TimeoutUnlessSet ==
    [][(TickTreino /\ treinamento.status = 1 /\ UGe(TempoDecorrido, TempoLimite))
        => /\ treinamento'.duracao = TempoDecorrido
           /\ stats'.tempo_ultimo_treino = TempoDecorrido
           /\ treinamento'.status =
                 IF ev'.accepted THEN 0
                 ELSE IF treinamento'.nivel_atual < treinamento'.nivel_maximo
                      THEN 3 ELSE 2]_vars

C2_Witness ==
    /\ ev.src = "trn" /\ ~ev.accepted /\ ev.durw = 1
    /\ treinamento.status = 3
    /\ treinamento.nivel_atual < treinamento.nivel_maximo
    /\ treinamento.duracao = TempoLimite
    /\ stats.tempo_ultimo_treino = TempoLimite

(* C3, as stated: the iteration whose level-up brings the level to         *)
(* level_max ends with status Completed and duration = now - started_at,   *)
(* and duration does not change while status stays Completed.              *)
C3_CompletionAsStated ==
    [][/\ (TickTreino /\ treinamento.status = 1
              /\ treinamento.nivel_atual < treinamento'.nivel_atual
              /\ treinamento'.nivel_atual = treinamento'.nivel_maximo)
          => /\ treinamento'.duracao = TempoDecorrido
             /\ treinamento'.status = 2
       /\ (treinamento.status = 2 /\ treinamento'.status = 2)
          => treinamento'.duracao = treinamento.duracao]_vars

(* C3, amended: the same, except that when the SET check that closes the   *)
(* iteration accepts SET the iteration ends with status NotStarted.        *)
C3_CompletionUnlessSet ==
    [][/\ (TickTreino /\ treinamento.status = 1
              /\ treinamento.nivel_atual < treinamento'.nivel_atual
              /\ treinamento'.nivel_atual = treinamento'.nivel_maximo)
          => /\ treinamento'.duracao = TempoDecorrido
             /\ treinamento'.status = IF ev'.accepted THEN 0 ELSE 2
       /\ (treinamento.status = 2 /\ treinamento'.status = 2)
          => treinamento'.duracao = treinamento.duracao]_vars

C3_Witness ==
    /\ ev.src = "trn" /\ ~ev.accepted /\ ev.durw = 1
    /\ treinamento.status = 2
    /\ treinamento.nivel_atual = NivelMaximo
    /\ treinamento.pontuacao = (NivelMaximo - 1) * PontosPorNivel
    /\ treinamento.duracao < TempoLimite

(* The objective condition of the session, on the reading of the step.     *)
Met ==
    CASE treinamento.objetivo = 0 ->
             estado_atual'.atencao >= limiar.atencao_alto
      [] treinamento.objetivo = 1 ->
             estado_atual'.relaxamento >= limiar.relaxamento_alto
      [] OTHER ->
             /\ estado_atual'.atencao >= limiar.atencao_alto
             /\ estado_atual'.relaxamento >= limiar.relaxamento_alto

(* C4: a Training iteration on an InProgress session adds exactly 1 to the *)
(* score when the objective condition holds and nothing otherwise; the     *)
(* level goes up by one exactly when the condition holds, the new score is *)
(* a positive multiple of 50 and the level is below level_max, and is      *)
(* unchanged otherwise; so the level is 1 while the score is below 50 and  *)
(* goes from 1 to 2 only on the iteration that makes the score 50.         *)
C4_ScoreAndLevel ==
    /\ [](treinamento.status = 1 /\ treinamento.pontuacao < PontosPorNivel
             => treinamento.nivel_atual = 1)
    /\ [][(TickTreino /\ treinamento.status = 1)
           => /\ treinamento'.pontuacao =
                    treinamento.pontuacao + (IF Met THEN 1 ELSE 0)
              /\ treinamento'.nivel_atual =
                    treinamento.nivel_atual +
                    (IF /\ Met
                        /\ treinamento'.pontuacao > 0
                        /\ treinamento'.pontuacao % PontosPorNivel = 0
                        /\ treinamento.nivel_atual < treinamento.nivel_maximo
                     THEN 1 ELSE 0)]_vars
    /\ [][(treinamento.nivel_atual = 1 /\ treinamento'.nivel_atual = 2)
           => treinamento'.pontuacao = PontosPorNivel]_vars

C4_Witness ==
    /\ ev.src = "trn"
    /\ treinamento.status = 1
    /\ treinamento.nivel_atual = 2
    /\ treinamento.pontuacao = PontosPorNivel

----------------------------------------------------------------------------
(* SpecIrq: the main loop taken one read or write at a time, so that the   *)
(* interrupt handler can run between any two of them.  The menu is in the  *)
(* Config view (one accepted NEXT at IrqT0); SET is pressed at will, NEXT  *)
(* and BACK only under the overlay, which keeps menu_index at 1 and the    *)
(* loop in executar_modo_configuracao.  The timer advances while the loop  *)
(* sleeps; an iteration and the handlers that interrupt it take no time.   *)

IrqT0 == 200

PassoIrqMs == 250

MaxUptimeIrq == 1500

(* main, "if (in_set_mode)": the first read of an iteration.               *)
MainLerSetMode ==
    /\ pc = "sleep"
    /\ loc' = [NoLoc EXCEPT !.set = in_set_mode, !.seen = {MenuState}]
    /\ pc' = IF in_set_mode THEN "display" ELSE "switch"
    /\ ev' = NoEv
    /\ UNCHANGED <<uptime, pressed, menuVars, last_button_time, limiar,
                   estado_atual, stats, treinamento, last_accept>>

(* main, "switch (menu_index)", case 1.                                    *)
MainLerMenu ==
    /\ pc = "switch"
    /\ menu_index = 1
    /\ loc' = [loc EXCEPT !.menu = menu_index]
    /\ pc' = "display"
    /\ ev' = NoEv
    /\ UNCHANGED <<uptime, pressed, menuVars, last_button_time, limiar,
                   estado_atual, stats, treinamento, last_accept>>

(* "atualizar_display_configuracao(ssd, current_param)".                   *)
CfgDisplay ==
    /\ pc = "display"
    /\ loc' = [loc EXCEPT !.param = current_param, !.btn = BUTTON_NEXT]
    /\ pc' = "gpio"
    /\ ev' = NoEv
    /\ UNCHANGED <<uptime, pressed, menuVars, last_button_time, limiar,
                   estado_atual, stats, treinamento, last_accept>>

(* Where the loop goes when it is done with the button loc.btn: the BACK   *)
(* test after the NEXT test, the sleep after the BACK test.                *)
CfgSegue ==
    IF loc.btn = BUTTON_NEXT
    THEN pc' = "gpio" /\ loc' = [loc EXCEPT !.btn = BUTTON_BACK]
    ELSE pc' = "sleep" /\ loc' = NoLoc

(* "if (gpio_get(BUTTON_x) == 0)".                                         *)
CfgLerBotao ==
    /\ pc = "gpio"
    /\ IF pressed[loc.btn] THEN pc' = "time" /\ loc' = loc ELSE CfgSegue
    /\ ev' = NoEv
    /\ UNCHANGED <<uptime, pressed, menuVars, last_button_time, limiar,
                   estado_atual, stats, treinamento, last_accept>>

(* "uint32_t current_time = time_us_32() / 1000".                          *)
CfgLerTempo ==
    /\ pc = "time"
    /\ loc' = [loc EXCEPT !.time = TimeMs(uptime)]
    /\ pc' = "check"
    /\ ev' = NoEv
    /\ UNCHANGED <<uptime, pressed, menuVars, last_button_time, limiar,
                   estado_atual, stats, treinamento, last_accept>>

(* "if (current_time - last_button_time > DEBOUNCE_DELAY_MS)".             *)
CfgTestar ==
    /\ pc = "check"
    /\ IF DebouncePoll(loc.time, last_button_time)
       THEN pc' = "write" /\ loc' = loc
       ELSE CfgSegue
    /\ ev' = NoEv
    /\ UNCHANGED <<uptime, pressed, menuVars, last_button_time, limiar,
                   estado_atual, stats, treinamento, last_accept>>

(* "last_button_time = current_time": the polled event is accepted.        *)
CfgGravar ==
    /\ pc = "write"
    /\ last_button_time' = loc.time
    /\ last_accept' = uptime
    /\ ev' = Ev("cfg", loc.btn, TRUE, 0)
    /\ pc' = "adjust"
    /\ UNCHANGED <<uptime, pressed, menuVars, limiar, estado_atual, stats,
                   treinamento, loc>>

(* "switch (current_param)" and the case it selects.                       *)
CfgAjustar ==
    /\ pc = "adjust"
    /\ limiar' = IF loc.btn = BUTTON_NEXT
                 THEN AumentarParam(current_param, limiar)
                 ELSE DiminuirParam(current_param, limiar)
    /\ IF loc.btn = BUTTON_NEXT
       THEN pc' = "gpio" /\ loc' = [loc EXCEPT !.btn = BUTTON_BACK,
                                               !.adj = current_param]
       ELSE pc' = "sleep" /\ loc' = NoLoc
    /\ ev' = [NoEv EXCEPT !.src = "adj", !.gpio = loc.btn]
    /\ UNCHANGED <<uptime, pressed, menuVars, last_button_time, estado_atual,
                   stats, treinamento, last_accept>>

(* The Config view right after the NEXT that led to it was accepted and    *)
(* let go: a state Spec reaches at IrqT0.                                  *)
InitIrq ==
    /\ uptime = IrqT0
    /\ pressed = [b \in Buttons |-> FALSE]
    /\ menu_index = 1
    /\ in_set_mode = FALSE
    /\ current_param = 0
    /\ last_button_time = TimeMs(IrqT0)
    /\ limiar = LimiarInicial
    /\ estado_atual = [atencao |-> 0, relaxamento |-> 0]
    /\ stats = StatsInicial
    /\ treinamento = TreinamentoInicial
    /\ pc = "sleep"
    /\ loc = NoLoc
    /\ last_accept = IrqT0
    /\ ev = NoEv

NextIrq ==
    \/ ButtonCallback(BUTTON_SET)
    \/ \E b \in {BUTTON_NEXT, BUTTON_BACK} : in_set_mode /\ ButtonCallback(b)
    \/ \E b \in Buttons : Release(b)
    \/ pc = "sleep" /\ AdvanceTime(PassoIrqMs, IrqT0, MaxUptimeIrq)
    \/ MainLerSetMode
    \/ MainLerMenu
    \/ CfgDisplay
    \/ CfgLerBotao
    \/ CfgLerTempo
    \/ CfgTestar
    \/ CfgGravar
    \/ CfgAjustar

SpecIrq == InitIrq /\ [][NextIrq]_vars

(* C7: any two accepted button events, whether accepted by the interrupt   *)
(* handler or by a polled check, are at least 200 ms apart.                *)
C7_AcceptedEventsSpread ==
    (ev.accepted /\ ev.gap >= 0) => ev.gap >= DEBOUNCE_DELAY_MS

(* C8: the overlay flag, the menu_index and the current_param that an      *)
(* iteration of the main loop has used so far all come from one MenuState  *)
(* that existed during the iteration.                                      *)
C8_NoTornRead ==
    pc # "sleep" =>
        \E s \in loc.seen :
            /\ s.set = loc.set
            /\ loc.menu # -1 => s.menu = loc.menu
            /\ loc.param # -1 => s.param = loc.param
            /\ loc.adj # -1 => s.param = loc.adj

----------------------------------------------------------------------------
(* The Parameter Store as the text describes it: threshold i moved by its  *)
(* step d (+ or -) and clamped to its interval, the other three kept.      *)

Clamp(x, lo, hi) == Max(lo, Min(hi, x))

Editado(i, d, L) ==
    CASE i = 0 -> [L EXCEPT !.atencao_baixo =
                       Clamp(@ + d * 50, 50, L.atencao_alto - 50)]
      [] i = 1 -> [L EXCEPT !.atencao_alto =
                       Clamp(@ + d * 50, L.atencao_baixo + 50, 1000)]
      [] i = 2 -> [L EXCEPT !.relaxamento_baixo =
                       Clamp(@ + d * 5, 5, L.relaxamento_alto - 5)]
      [] i = 3 -> [L EXCEPT !.relaxamento_alto =
                       Clamp(@ + d * 5, L.relaxamento_baixo + 5, 100)]

(* C11: under the overlay every accepted NEXT moves the threshold          *)
(* current_param selects one step up, every accepted BACK one step down    *)
(* (up to the clamping), and neither changes menu_index.                   *)
C11_OverlayEdits ==
    [][(in_set_mode /\ ev'.accepted /\ ev'.gpio \in {BUTTON_NEXT, BUTTON_BACK})
        => /\ limiar' = Editado(current_param,
                                IF ev'.gpio = BUTTON_NEXT THEN 1 ELSE -1, limiar)
           /\ menu_index' = menu_index]_vars

----------------------------------------------------------------------------
(* SpecStore: the two switch statements of executar_modo_configuracao on   *)
(* their own, from every setting of the thresholds the editing can leave   *)
(* (multiples of the steps, inside the ranges, the gaps kept) and every    *)
(* current_param.                                                          *)

LimiaresValidos ==
    {L \in [atencao_baixo : {50 * k : k \in 1..19},
            atencao_alto : {50 * k : k \in 2..20},
            relaxamento_baixo : {5 * k : k \in 1..19},
            relaxamento_alto : {5 * k : k \in 2..20}] :
        /\ L.atencao_alto >= L.atencao_baixo + 50
        /\ L.relaxamento_alto >= L.relaxamento_baixo + 5}

InitStore ==
    /\ uptime = 0
    /\ pressed = [b \in Buttons |-> FALSE]
    /\ menu_index = 1
    /\ in_set_mode = TRUE
    /\ current_param \in 0..UltimoParam
    /\ last_button_time = 0
    /\ limiar \in LimiaresValidos
    /\ estado_atual = [atencao |-> 0, relaxamento |-> 0]
    /\ stats = StatsInicial
    /\ treinamento = TreinamentoInicial
    /\ pc = "sleep"
    /\ loc = NoLoc
    /\ last_accept = -1
    /\ ev = NoEv

(* "switch (current_param)" of the NEXT check.                             *)
SwitchAumentar ==
    /\ limiar' = AumentarParam(current_param, limiar)
    /\ ev' = [NoEv EXCEPT !.src = "adj", !.gpio = BUTTON_NEXT]
    /\ UNCHANGED <<uptime, pressed, menuVars, last_button_time, estado_atual,
                   stats, treinamento, pc, loc, last_accept>>

(* "switch (current_param)" of the BACK check.                             *)
SwitchDiminuir ==
    /\ limiar' = DiminuirParam(current_param, limiar)
    /\ ev' = [NoEv EXCEPT !.src = "adj", !.gpio = BUTTON_BACK]
    /\ UNCHANGED <<uptime, pressed, menuVars, last_button_time, estado_atual,
                   stats, treinamento, pc, loc, last_accept>>

NextStore == SwitchAumentar \/ SwitchDiminuir

SpecStore == InitStore /\ [][NextStore]_vars

(* C12: an increase or a decrease of threshold i always yields a result,   *)
(* moves threshold i by its step (5.0 for attention, 0.5 for relaxation)   *)
(* clamped to its interval ([5.0, high - 5.0] or [low + 5.0, 100.0];       *)
(* [0.5, high - 0.5] or [low + 0.5, 10.0]) and leaves the other three.     *)
C12_IncreaseDecrease ==
    [][(ev'.src = "adj")
        => /\ limiar' = Editado(current_param,
                                IF ev'.gpio = BUTTON_NEXT THEN 1 ELSE -1, limiar)
           /\ limiar' \in LimiaresValidos]_vars

C12_Witness ==
    /\ ev.src = "adj" /\ ev.gpio = BUTTON_NEXT
    /\ current_param = 2
    /\ limiar.relaxamento_baixo = limiar.relaxamento_alto - 5
    /\ limiar.relaxamento_alto = 10

----------------------------------------------------------------------------
(* SpecClassify: determinar_estado_cognitivo as the Monitoring handler     *)
(* applies it, on readings at, next to and between the thresholds, with    *)
(* the default thresholds and with an edited setting.                      *)

LeiturasClassificar ==
    [atencao : {200, 299, 300, 349, 350, 500, 649, 650, 699, 700, 750, 800},
     relaxamento : {20, 29, 30, 34, 35, 50, 64, 65, 69, 70, 80}]

LimiarEditado == [atencao_baixo |-> 350, atencao_alto |-> 650,
                  relaxamento_baixo |-> 35, relaxamento_alto |-> 65]

InitClassify ==
    /\ uptime = 0
    /\ pressed = [b \in Buttons |-> FALSE]
    /\ menu_index = 0
    /\ in_set_mode = FALSE
    /\ current_param = 0
    /\ last_button_time = 0
    /\ limiar \in {LimiarInicial, LimiarEditado}
    /\ estado_atual = [atencao |-> 0, relaxamento |-> 0]
    /\ stats = StatsInicial
    /\ treinamento = TreinamentoInicial
    /\ pc = "sleep"
    /\ loc = NoLoc
    /\ last_accept = -1
    /\ ev = NoEv

NextClassify == LoopMonitoramento(LeiturasClassificar)

SpecClassify == InitClassify /\ [][NextClassify]_vars

(* The rules of the text in their order, each with the state it names.     *)
Regras(a, r, L) ==
    <<[se |-> a >= L.atencao_alto /\ r >= L.relaxamento_alto, estado |-> 4],
      [se |-> a >= L.atencao_alto /\ r < L.relaxamento_baixo, estado |-> 5],
      [se |-> a >= L.atencao_alto, estado |-> 2],
      [se |-> a < L.atencao_baixo, estado |-> 0],
      [se |-> r >= L.relaxamento_alto, estado |-> 3],
      [se |-> TRUE, estado |-> 1]>>

PrimeiraRegra(a, r, L) ==
    LET rs == Regras(a, r, L)
        i  == CHOOSE k \in 1..Len(rs) :
                  rs[k].se /\ \A j \in 1..(k - 1) : ~rs[j].se
    IN  rs[i].estado

(* The six worked examples, with the default thresholds.                   *)
Exemplos ==
    {<<750, 80, 4>>, <<750, 20, 5>>, <<200, 50, 0>>,
     <<500, 50, 1>>, <<500, 80, 3>>, <<800, 50, 2>>}

(* C13: the classification the Monitoring handler computes is always one   *)
(* of the six states, is the state of the first rule that matches in the   *)
(* order flow, anxiety, high concentration, distracted, deep relaxation,   *)
(* normal, and on the six examples is the state the text gives.            *)
C13_Classify ==
    ev.estado # -1 =>
        /\ ev.estado \in 0..5
        /\ ev.estado = PrimeiraRegra(estado_atual.atencao,
                                     estado_atual.relaxamento, limiar)
        /\ \A e \in Exemplos :
              (limiar = LimiarInicial /\ estado_atual.atencao = e[1]
                  /\ estado_atual.relaxamento = e[2]) => ev.estado = e[3]

C13_Witness ==
    /\ ev.estado = 5
    /\ limiar = LimiarInicial
    /\ estado_atual = [atencao |-> 750, relaxamento |-> 20]

----------------------------------------------------------------------------
(* The Training state machine and the button events.                       *)

(* A step that accepts gpio, in the interrupt handler or in a polled check. *)
Aceita(gpio) == ev'.accepted /\ ev'.gpio = gpio

EmTreino == menu_index = 2 /\ ~in_set_mode

(* C14: in Training with the session NotStarted every accepted NEXT sets   *)
(* objetivo to (objetivo + 1) mod 3.                                       *)
C14_NextCyclesObjective ==
    [][(EmTreino /\ treinamento.status = 0 /\ Aceita(BUTTON_NEXT))
        => treinamento'.objetivo = (treinamento.objetivo + 1) % NumObjetivos]_vars

(* C15: in Training with the session NotStarted an accepted SET starts the *)
(* session: InProgress, level 1, score 0, level_max 10, started_at = now.  *)
C15_SetStartsSession ==
    [][(EmTreino /\ treinamento.status = 0 /\ Aceita(BUTTON_SET))
        => /\ treinamento'.status = 1
           /\ treinamento'.nivel_atual = 1
           /\ treinamento'.pontuacao = 0
           /\ treinamento'.nivel_maximo = NivelMaximo
           /\ treinamento'.inicio = TimeS(uptime)]_vars

(* C16: in Training an accepted SET takes an InProgress, Completed or      *)
(* Failed session to NotStarted, and nothing else changes the status of a  *)
(* Completed or Failed session.                                            *)
C16_SetCancelsAndResets ==
    [][/\ (EmTreino /\ treinamento.status \in {1, 2, 3} /\ Aceita(BUTTON_SET))
          => treinamento'.status = 0
       /\ (treinamento.status \in {2, 3}
              /\ treinamento'.status # treinamento.status)
          => (EmTreino /\ Aceita(BUTTON_SET))]_vars

(* The statistics with the reading r recorded, as the text describes it.   *)
Registrado(st, r) ==
    [st EXCEPT !.amostras = @ + 1,
               !.soma_atencao = @ + r.atencao,
               !.soma_relaxamento = @ + r.relaxamento,
               !.max_atencao = Max(@, r.atencao),
               !.max_relaxamento = Max(@, r.relaxamento)]

(* C17: every Monitoring iteration and every Training iteration records    *)
(* its reading in the statistics (one more sample, the readings added to   *)
(* the sums, the maxima raised), and no other iteration does.              *)
C17_StatsRecorded ==
    [][/\ (ev'.src \in {"mon", "trn"})
          => \A f \in {"amostras", "soma_atencao", "soma_relaxamento",
                       "max_atencao", "max_relaxamento"} :
                 stats'[f] = Registrado(stats, estado_atual')[f]
       /\ (ev'.src \in {"cfg", "hist"})
          => stats'.amostras # stats.amostras + 1]_vars

----------------------------------------------------------------------------
(* SpecHist: the History view and the reset of the statistics, after a     *)
(* session has failed by the time limit.  The initial state is one         *)
(* SpecTrain reaches: session started at 1700 ms, objective missed for     *)
(* 300 s, one session counted, and the timer one step further.  From there *)
(* all three buttons and all four handlers are free.                       *)

HistT0 == 301450

PassoHistMs == 250

JanelaHistMs == 1020

InitHist ==
    /\ uptime = HistT0
    /\ pressed = [b \in Buttons |-> FALSE]
    /\ menu_index = 2
    /\ in_set_mode = FALSE
    /\ current_param = 0
    /\ last_button_time = 1700
    /\ limiar = LimiarInicial
    /\ estado_atual = [atencao |-> 699, relaxamento |-> 70]
    /\ stats = [StatsInicial EXCEPT !.tempo_ultimo_treino = TempoLimite,
                                    !.sessoes_concluidas = 1]
    /\ treinamento = [objetivo |-> 0, status |-> 3, inicio |-> 1,
                      nivel_atual |-> 1, nivel_maximo |-> NivelMaximo,
                      pontuacao |-> 0, duracao |-> TempoLimite]
    /\ pc = "sleep"
    /\ loc = NoLoc
    /\ last_accept = 1700
    /\ ev = NoEv

NextHist ==
    \/ \E b \in Buttons : ButtonCallback(b)
    \/ \E b \in Buttons : Release(b)
    \/ AdvanceTime(PassoHistMs, HistT0, HistT0 + JanelaHistMs)
    \/ LoopMonitoramento({LeituraBaixa})
    \/ LoopConfiguracao
    \/ LoopTreinamento({LeituraBaixa})
    \/ LoopHistorico

SpecHist == InitHist /\ [][NextHist]_vars

(* A History iteration that runs the reset: SET passes the polled check    *)
(* with NEXT held.                                                         *)
PassoLimpa == ev'.src = "hist" /\ ev'.accepted /\ pressed[BUTTON_NEXT]

(* C18: the reset zeroes every field of the statistics, sessoes_concluidas *)
(* and tempo_ultimo_treino included, and sets tempo_inicio to the current  *)
(* time.                                                                   *)
C18_ResetZeroesAll ==
    [][PassoLimpa
        => stats' = [soma_atencao |-> 0, soma_relaxamento |-> 0,
                     max_atencao |-> 0, max_relaxamento |-> 0, amostras |-> 0,
                     tempo_inicio |-> TimeS(uptime),
                     tempo_ultimo_treino |-> 0, sessoes_concluidas |-> 0]]_vars

----------------------------------------------------------------------------
(* SpecSessoes: one training session after another, each lost by the time  *)
(* limit.  SET is pressed when no session runs and held until the polled   *)
(* check has started the next one, then let go; the reading never meets    *)
(* the objective, so the iterations of a running session change nothing    *)
(* until the first one that finds the limit passed, and the timer goes     *)
(* straight to it (or to the wrap of time_us_32, where the elapsed seconds *)
(* wrap as well).  The handler runs once after every other event, and the   *)
(* timer moves once between two runs of it.                                *)

PassoSessoesMs == 250

MaxUptimeSessoes == 78000000

InitSessoes ==
    /\ InitTreino
    /\ treinamento.objetivo = 0

(* The first instant at which an iteration ends the running session.       *)
FimDaSessao ==
    LET base == uptime - TimeMs(uptime)
    IN  Min(base + (treinamento.inicio + TempoLimite) * 1000, base + WrapMs)

SessaoOciosa ==
    /\ treinamento.status = 1
    /\ NenhumPressionado
    /\ uptime < FimDaSessao
    /\ FimDaSessao <= MaxUptimeSessoes
    /\ uptime' = FimDaSessao
    /\ ev' = NoEv
    /\ UNCHANGED <<pressed, menuVars, last_button_time, limiar, estado_atual,
                   stats, treinamento, pc, loc, last_accept>>

NextSessoes ==
    \/ ~pressed[BUTTON_SET] /\ treinamento.status # 1
          /\ ButtonCallback(BUTTON_SET)
    \/ treinamento.status = 1 /\ Release(BUTTON_SET)
    \/ pressed[BUTTON_SET] /\ treinamento.status # 1 /\ ev.src # "none"
          /\ AdvanceTime(PassoSessoesMs, 0, MaxUptimeSessoes)
    \/ SessaoOciosa
    \/ ev.src # "trn" /\ LoopTreinamento({LeituraBaixa})

SpecSessoes == InitSessoes /\ [][NextSessoes]_vars

(* The accumulators of the statistics. *)
Acumuladores ==
    {"amostras", "soma_atencao", "soma_relaxamento", "max_atencao",
     "max_relaxamento", "sessoes_concluidas"}

(* C19: the statistics are reset only by a History iteration that finds    *)
(* SET pressed and past the debounce delay and NEXT pressed; a History     *)
(* iteration without NEXT leaves them alone; and no other step lowers      *)
(* amostras, a sum, a maximum or sessoes_concluidas, or restarts           *)
(* tempo_inicio.                                                           *)
C19_ResetOnlyByGesture ==
    [][/\ (\/ \E f \in Acumuladores : stats'[f] < stats[f]
           \/ stats'.tempo_inicio # stats.tempo_inicio)
          => /\ ev'.src = "hist"
             /\ menu_index = 3 /\ ~in_set_mode
             /\ pressed[BUTTON_SET] /\ pressed[BUTTON_NEXT]
             /\ DebouncePoll(TimeMs(uptime), last_button_time)
       /\ (ev'.src = "hist" /\ ~pressed[BUTTON_NEXT]) => stats' = stats]_vars

(* C20: a reset applied to statistics that a reset has just produced       *)
(* changes nothing but tempo_inicio, which takes the time of the later     *)
(* reset: checked on the statistics every reset step of SpecHist leaves,   *)
(* for a second reset at any second of the window, and on every reset step *)
(* that starts from statistics a reset would not change.                   *)
C20_ResetIdempotent ==
    [][PassoLimpa
        => /\ \A s \in TimeS(HistT0)..TimeS(HistT0 + JanelaHistMs) :
                 LimparEstatisticas(stats', s) = [stats' EXCEPT !.tempo_inicio = s]
           /\ stats = LimparEstatisticas(stats, stats.tempo_inicio)
                 => stats' = [stats EXCEPT !.tempo_inicio = TimeS(uptime)]]_vars

(* A reset has run, PassoHistMs after the accepted event before it, on     *)
(* statistics that held no sample: the second of two resets with SET and   *)
(* NEXT held throughout is such a step.                                    *)
C20_Witness ==
    /\ ev.src = "hist" /\ ev.accepted /\ ev.gap = PassoHistMs
    /\ pressed[BUTTON_SET] /\ pressed[BUTTON_NEXT]
    /\ uptime = HistT0 + 2 * PassoHistMs
    /\ stats = LimparEstatisticas(stats, TimeS(uptime))
    /\ stats.tempo_ultimo_treino = TempoLimite

----------------------------------------------------------------------------
(* Claims on the whole program, on the debounce and on the menu state      *)

(* C21: in every reachable state, the one at process start included,       *)
(* nivel_atual is in 1..nivel_maximo and nivel_maximo is 10.               *)
C21_LevelRange ==
    /\ treinamento.nivel_maximo = NivelMaximo
    /\ treinamento.nivel_atual >= 1
    /\ treinamento.nivel_atual <= treinamento.nivel_maximo

(* The ms since last_button_time, as the handlers compute them. *)
DesdeUltimo == TimeMs(uptime) - last_button_time

(* C22: a button handled 200 ms or more after last_button_time is accepted *)
(* and last_button_time becomes the current time: an edge in the interrupt *)
(* handler, SET in a Training or History iteration, NEXT or BACK in an     *)
(* iteration of the overlay.                                               *)
C22_AcceptedFrom200 ==
    [][(/\ DesdeUltimo >= DEBOUNCE_DELAY_MS
        /\ \/ ev'.src = "irq"
           \/ ev'.src \in {"trn", "hist"} /\ pressed[BUTTON_SET]
           \/ ev'.src = "cfg" /\ in_set_mode
                 /\ (pressed[BUTTON_NEXT] \/ pressed[BUTTON_BACK]))
        => /\ ev'.accepted
           /\ last_button_time' = TimeMs(uptime)]_vars

(* C23: an edge the interrupt handler rejects leaves last_button_time, the *)
(* menu state, the thresholds, the training session and the statistics as  *)
(* they were.                                                              *)
C23_RejectedEdgeNoEffect ==
    [][(ev'.src = "irq" /\ ~ev'.accepted)
        => UNCHANGED <<last_button_time, menu_index, in_set_mode,
                       current_param, limiar, treinamento, stats>>]_vars

(* An edge was rejected with the overlay open on the last parameter, where *)
(* an accepted SET would close it.                                         *)
C23_Witness ==
    /\ ev.src = "irq" /\ ~ev.accepted /\ ev.gpio = BUTTON_SET
    /\ in_set_mode /\ current_param = UltimoParam

(* C24: in the Training view a SET edge the interrupt handler accepts      *)
(* leaves menu_index, in_set_mode and current_param as they were, and the  *)
(* overlay is never open in the Training view.                             *)
C24_NoOverlayFromTraining ==
    [][/\ (menu_index = 2 /\ ev'.src = "irq" /\ ev'.accepted
              /\ ev'.gpio = BUTTON_SET)
          => UNCHANGED <<menu_index, in_set_mode, current_param>>
       /\ menu_index' = 2 => ~in_set_mode']_vars

(* SET was accepted by the interrupt handler in the Training view.         *)
C24_Witness ==
    /\ ev.src = "irq" /\ ev.accepted /\ ev.gpio = BUTTON_SET
    /\ menu_index = 2

(* C25: wherever the main loop is in its iteration, current_param is in    *)
(* 0..3, and it is 0 when the overlay is not open.                         *)
C25_ParamIndex ==
    /\ current_param \in 0..UltimoParam
    /\ ~in_set_mode => current_param = 0

(* The overlay has been through all four parameters and closed by SET      *)
(* while an iteration of the loop was under way.                           *)
C25_Witness ==
    /\ pc # "sleep"
    /\ ev.src = "irq" /\ ev.accepted /\ ev.gpio = BUTTON_SET
    /\ ~in_set_mode
    /\ [menu |-> menu_index, set |-> TRUE, param |-> UltimoParam] \in loc.seen

----------------------------------------------------------------------------
(* Claims on the training session *)

(* C26: sessoes_concluidas goes up by one in a step that takes the session *)
(* from InProgress to Completed or Failed, and is unchanged by every other *)
(* step: never two in one iteration, and none in an iteration that leaves  *)
(* the session NotStarted.                                                 *)
C26_OneCountPerSession ==
    [][stats'.sessoes_concluidas - stats.sessoes_concluidas
          = IF treinamento.status = 1 /\ treinamento'.status \in {2, 3}
            THEN 1 ELSE 0]_vars

(* C27: a session ends by the time limit only when 300 s or more have      *)
(* passed since it started, counted in whole seconds of a timer that does  *)
(* not wrap.  In SpecSessoes every session ends by the time limit, and the *)
(* event accepted last before that is the SET that started it.             *)
C27_TimeoutAfter300s ==
    [][(treinamento.status = 1 /\ treinamento'.status \in {2, 3})
        => (uptime \div 1000) - (last_accept \div 1000) >= TempoLimite]_vars

(* C28: a session InProgress has nivel_atual = 1 + pontuacao div 50, below *)
(* nivel_maximo, and pontuacao below 450; a session Completed has          *)
(* nivel_atual = 10 and pontuacao = 450.                                   *)
C28_LevelFromScore ==
    /\ treinamento.status = 1
          => /\ treinamento.nivel_atual = 1 + treinamento.pontuacao \div PontosPorNivel
             /\ treinamento.nivel_atual < treinamento.nivel_maximo
             /\ treinamento.pontuacao < (NivelMaximo - 1) * PontosPorNivel
    /\ treinamento.status = 2
          => /\ treinamento.nivel_atual = NivelMaximo
             /\ treinamento.pontuacao = (NivelMaximo - 1) * PontosPorNivel

(* A session one point short of completion.                                *)
C28_Witness ==
    /\ ev.src = "trn"
    /\ treinamento.status = 1
    /\ treinamento.nivel_atual = NivelMaximo - 1
    /\ treinamento.pontuacao = (NivelMaximo - 1) * PontosPorNivel - 1

(* C29: the thresholds change only in a step taken with the overlay open.  *)
C29_EditsOnlyUnderOverlay ==
    [][limiar' # limiar => in_set_mode]_vars

----------------------------------------------------------------------------
(* SpecSegurar: the Training view with no session started; SET is pressed  *)
(* once and never let go.                                                  *)

PassoSegurarMs == 250

JanelaSegurarMs == 1020

NextSegurar ==
    \/ ~pressed[BUTTON_SET] /\ ButtonCallback(BUTTON_SET)
    \/ AdvanceTime(PassoSegurarMs, TreinoT0, TreinoT0 + JanelaSegurarMs)
    \/ LoopTreinamento({LeituraBaixa})

SpecSegurar == InitTreino /\ [][NextSegurar]_vars

(* C30: while SET stays down after one press, the SET check of the         *)
(* Training handler changes the status of the session at most once:        *)
(* nivel_atual is 0 until the first start, so a change made with           *)
(* nivel_atual # 0 is a second one.                                        *)
C30_OneChangePerPress ==
    [][(ev'.src = "trn" /\ ev'.accepted /\ ev'.gpio = BUTTON_SET
           /\ treinamento'.status # treinamento.status)
        => treinamento.nivel_atual = 0]_vars

----------------------------------------------------------------------------
(* Claims on the overlay and on the session outside the Training view      *)

(* C31: the overlay is open only in the Monitoring, Config and History     *)
(* views, never in the Training view, and no step taken with the overlay   *)
(* open changes menu_index.                                                *)
C31_OverlayKeepsMode ==
    [][/\ in_set_mode' => menu_index' \in {0, 1, 3}
       /\ in_set_mode => menu_index' = menu_index]_vars

(* NEXT was accepted by the interrupt handler with the overlay open in the *)
(* History view, where it would otherwise lead to Monitoring.              *)
C31_Witness ==
    /\ ev.src = "irq" /\ ev.accepted /\ ev.gpio = BUTTON_NEXT
    /\ in_set_mode /\ menu_index = 3

(* C32: an iteration of the Monitoring, Config or History handler, under   *)
(* the overlay or not, and a run of the interrupt handler leave every      *)
(* field of treinamento as it was; only a Training iteration changes one.  *)
C32_SessionOnlyInTraining ==
    [][/\ ev'.src \in {"mon", "cfg", "hist", "irq"} => treinamento' = treinamento
       /\ treinamento' # treinamento => ev'.src = "trn"]_vars

(* A History iteration has run while a session is InProgress.              *)
C32_Witness ==
    /\ ev.src = "hist"
    /\ treinamento.status = 1

----------------------------------------------------------------------------
(* SpecVivo: the Training view for ever.  The timer goes round: uptime     *)
(* runs from TreinoT0 in steps of PassoVivoMs through one period of        *)
(* time_us_32 and then starts again at TreinoT0, the last step being       *)
(* whatever is left of the period, so that the states are finitely many    *)
(* and time never stops.  The loop sleeps 50 ms an iteration, far less     *)
(* than a step: the timer moves only after the handler has run at the      *)
(* current time.  SET is pressed and let go at will; the reading never     *)
(* meets the objective.  Once MaxSessoesVivo sessions have been counted    *)
(* the session under way is followed to its end and nothing more.          *)

PassoVivoMs == 179000

MaxSessoesVivo == 1

EmCurso == stats.sessoes_concluidas < MaxSessoesVivo \/ treinamento.status = 1

Relogio ==
    /\ EmCurso
    /\ ev.src = "trn"
    /\ uptime' = IF uptime + PassoVivoMs >= TreinoT0 + WrapMs
                 THEN TreinoT0 ELSE uptime + PassoVivoMs
    /\ ev' = NoEv
    /\ UNCHANGED <<pressed, menuVars, last_button_time, limiar, estado_atual,
                   stats, treinamento, pc, loc, last_accept>>

TickVivo == EmCurso /\ LoopTreinamento({LeituraBaixa})

NextVivo ==
    \/ ~pressed[BUTTON_SET] /\ EmCurso /\ ButtonCallback(BUTTON_SET)
    \/ Release(BUTTON_SET)
    \/ Relogio
    \/ TickVivo

SpecVivo ==
    /\ InitSessoes
    /\ [][NextVivo]_vars
    /\ WF_vars(TickVivo)
    /\ SF_vars(Relogio)

(* C33: with the Training handler run again and again and the timer        *)
(* advancing, a session InProgress does not stay so for ever; and the      *)
(* iteration that finds 300 s or more elapsed does not leave it            *)
(* InProgress.                                                             *)
C33_SessionEnds ==
    /\ (treinamento.status = 1) ~> (treinamento.status # 1)
    /\ [][(ev'.src = "trn" /\ treinamento.status = 1
              /\ UGe(TempoDecorrido, TempoLimite))
           => treinamento'.status # 1]_vars

(* A session was left alone and ended by the time limit, on the second     *)
(* iteration after its start: the first found less than 300 s elapsed.     *)
C33_Witness ==
    /\ ev.src = "trn" /\ ~ev.accepted /\ ev.durw = 1
    /\ treinamento.status = 3
    /\ treinamento.duracao = 2 * (PassoVivoMs \div 1000)

====
